---------------------------- MODULE Spec2Model ----------------------------
(***************************************************************************)
(* A model of the API gateway of Course_work/course.py/complete_gateway.py *)
(* (GatewayConfig, InMemoryStorage, APIGateway and gateway_middleware).    *)
(*                                                                         *)
(* Time is the value time.time() returns, in whole seconds; it is the      *)
(* variable now and only the environment action Tick moves it.  Python     *)
(* dicts are functions whose DOMAIN is the set of keys present.  Strings   *)
(* that the code inspects character by character (request paths) are       *)
(* sequences of one-character strings.                                     *)
(***************************************************************************)
EXTENDS Integers, Sequences, FiniteSets, TLC

VARIABLES
    now,                \* time.time()
    rate_limits,        \* InMemoryStorage.rate_limits
    circuit_breakers,   \* InMemoryStorage.circuit_breakers
    cache,              \* InMemoryStorage.cache
    stats,              \* InMemoryStorage.stats
    req,                \* per connection: the request being served, the
                        \* middleware's position and locals (count is the
                        \* local of check_rate_limit), and (history) the
                        \* request's serial number and what it met
    resp,               \* per connection: the response last sent on it
    ret,                \* the last direct method call and what it returned
    rl_calls,           \* history: per client, the calls of the window in progress
    cache_ins,          \* history: per key, the last cache_set
    cb_consec           \* history: per service, failures since the last success

vars == <<now, rate_limits, circuit_breakers, cache, stats, req, resp,
          ret, rl_calls, cache_ins, cb_consec>>

(***************************************************************************)
(* Bounds of the model.                                                    *)
(***************************************************************************)
MaxCalls == 1002        \* direct check_rate_limit calls per client and window
MaxCallsOther == 1      \* the same, for the second client
MaxRateTime == 61       \* the last instant of the rate limiter's runs

(***************************************************************************)
(* Values.                                                                 *)
(***************************************************************************)
None == [t |-> "None"]

\* find_service's None, among service names
NoService == "<None>"

\* a header the request does not carry
NoHeader == "<absent>"

\* what response.json() can give: None (null) and lists
JList(items) == [t |-> "list", v |-> items]

\* Python's truth value of such a value: None and the empty list are false
Truthy(v) == v.t = "list" /\ Len(v.v) > 0

\* str.startswith
StartsWith(str, prefix) ==
    /\ Len(prefix) <= Len(str)
    /\ SubSeq(str, 1, Len(prefix)) = prefix

\* f"{request.url.path}?{request.url.query}"
CacheKey(path, query) == path \o <<"?">> \o query

EmptyDict == [k \in {} |-> None]

\* d[k] = v, as Python's d[k] = v on a dict
DictSet(d, k, v) == [x \in (DOMAIN d) \cup {k} |-> IF x = k THEN v ELSE d[x]]

\* del d[k]
DictDel(d, k) == [x \in (DOMAIN d) \ {k} |-> d[x]]

(***************************************************************************)
(* Request paths and query strings, as sequences of characters.            *)
(***************************************************************************)
P_users == <<"/", "a", "p", "i", "/", "u", "s", "e", "r", "s">>

P_products == <<"/", "a", "p", "i", "/", "p", "r", "o", "d", "u", "c", "t", "s">>

P_orders == <<"/", "a", "p", "i", "/", "o", "r", "d", "e", "r", "s">>

Q_none == << >>

Q_a1 == <<"a", "=", "1">>

P_users_1 == P_users \o <<"/", "1">>

P_usersx == P_users \o <<"x">>

P_user == <<"/", "a", "p", "i", "/", "u", "s", "e", "r">>

P_API_users == <<"/", "A", "P", "I", "/", "u", "s", "e", "r", "s">>

P_unknown == <<"/", "a", "p", "i", "/", "u", "n", "k", "n", "o", "w", "n">>

P_root == <<"/">>

P_health == <<"/", "h", "e", "a", "l", "t", "h">>

P_metrics == <<"/", "m", "e", "t", "r", "i", "c", "s">>

P_docs == <<"/", "d", "o", "c", "s">>

P_openapi == <<"/", "o", "p", "e", "n", "a", "p", "i", ".", "j", "s", "o", "n">>

(***************************************************************************)
(* GatewayConfig                                                           *)
(***************************************************************************)
RATE_LIMITS == [default |-> 100, anonymous |-> 50, premium |-> 1000]

CIRCUIT_BREAKER == [failure_threshold |-> 5, timeout |-> 60, half_open_timeout |-> 30]

SERVICES == [users |-> [url |-> "http://localhost:8001", timeout |-> 10],
             products |-> [url |-> "http://localhost:8002", timeout |-> 15],
             orders |-> [url |-> "http://localhost:8003", timeout |-> 20]]

\* the dict ROUTES in its insertion order, which is the order .items() gives
ROUTES == << [route_prefix |-> P_users, service_name |-> "users"],
             [route_prefix |-> P_products, service_name |-> "products"],
             [route_prefix |-> P_orders, service_name |-> "orders"] >>

\* the length of a rate-limit window, in seconds
RATE_WINDOW == 60

(***************************************************************************)
(* InMemoryStorage: the rate-limit windows                                 *)
(***************************************************************************)
\* get_rate_limit_data at time t: the dict afterwards (the data returned is
\* the entry under key)
GetRateLimitData(rl, key, t) ==
    LET created == IF key \notin DOMAIN rl
                   THEN DictSet(rl, key, [count |-> 0, reset_time |-> t + RATE_WINDOW])
                   ELSE rl
        data == created[key]
    IN  IF t > data.reset_time
        THEN DictSet(created, key, [count |-> 0, reset_time |-> t + RATE_WINDOW])
        ELSE created

\* a variant that writes back the count of a fresh window plus one, as a
\* call would that read the entry before another call's write
IncrementRateLimitLost(rl, key, t) ==
    LET got == GetRateLimitData(rl, key, t)
    IN  DictSet(got, key, [got[key] EXCEPT !.count = 1])

\* increment_rate_limit at time t: the dict afterwards; the count returned is
\* the entry's count
IncrementRateLimit(rl, key, t) ==
    LET got == GetRateLimitData(rl, key, t)
    IN  DictSet(got, key, [got[key] EXCEPT !.count = @ + 1])

(***************************************************************************)
(* APIGateway.check_rate_limit                                             *)
(***************************************************************************)
\* a variant in which an unknown tier gets the anonymous ceiling
RateLimitOfUnknownAnonymous(tier) ==
    IF tier \in DOMAIN RATE_LIMITS THEN RATE_LIMITS[tier] ELSE RATE_LIMITS["anonymous"]

\* RATE_LIMITS.get(tier, RATE_LIMITS['default'])
RateLimitOf(tier) ==
    IF tier \in DOMAIN RATE_LIMITS THEN RATE_LIMITS[tier] ELSE RATE_LIMITS["default"]

\* a variant that denies at the limit itself (count >= limit)
CheckRateLimitOffByOne(rl, user_id, tier, t) ==
    LET after == IncrementRateLimit(rl, user_id, t)
    IN  [ok |-> ~(after[user_id].count >= RateLimitOf(tier)), rate_limits |-> after]

\* a variant that does not count a call it denies
CheckRateLimitDeniedUncounted(rl, user_id, tier, t) ==
    LET limit == RateLimitOf(tier)
        after == IncrementRateLimit(rl, user_id, t)
        count == after[user_id].count
    IN  IF count > limit
        THEN [ok |-> FALSE, rate_limits |-> GetRateLimitData(rl, user_id, t)]
        ELSE [ok |-> TRUE, rate_limits |-> after]

\* check_rate_limit: what it returns (ok) and the dict afterwards
CheckRateLimit(rl, user_id, tier, t) ==
    LET limit == RateLimitOf(tier)
        after == IncrementRateLimit(rl, user_id, t)
        count == after[user_id].count
    IN  [ok |-> ~(count > limit), rate_limits |-> after]

(***************************************************************************)
(* InMemoryStorage: the circuit-breaker records                            *)
(***************************************************************************)
\* get_circuit_breaker_state: the dict afterwards (the state returned is the
\* entry under service)
GetCircuitBreakerState(cb, service) ==
    IF service \notin DOMAIN cb
    THEN DictSet(cb, service, [state |-> "closed", failures |-> 0,
                               last_failure_time |-> 0, success_count |-> 0])
    ELSE cb

(***************************************************************************)
(* InMemoryStorage: the cache                                              *)
(***************************************************************************)
\* the ttl cache_set uses when none is given, and the one the middleware gives
CACHE_TTL == 300

\* a variant that drops the entry already at its expiry instant (>=)
CacheGetEarly(ch, key, t) ==
    IF key \notin DOMAIN ch
    THEN [value |-> None, cache |-> ch]
    ELSE IF t >= ch[key].expires_at
         THEN [value |-> None, cache |-> DictDel(ch, key)]
         ELSE [value |-> ch[key].value, cache |-> ch]

\* cache_set at time t: the dict afterwards
CacheSet(ch, key, value, ttl, t) ==
    DictSet(ch, key, [value |-> value, expires_at |-> t + ttl])

\* cache_get at time t: the value returned and the dict afterwards
CacheGet(ch, key, t) ==
    IF key \notin DOMAIN ch
    THEN [value |-> None, cache |-> ch]
    ELSE IF t > ch[key].expires_at
         THEN [value |-> None, cache |-> DictDel(ch, key)]
         ELSE [value |-> ch[key].value, cache |-> ch]

(***************************************************************************)
(* APIGateway: the circuit breaker                                         *)
(***************************************************************************)
\* the successes that close a half-open breaker
HALF_OPEN_SUCCESSES == 2

\* a variant that lets a request through already 60 seconds after the last
\* failure (>=)
CheckCircuitBreakerEarly(cb, service_name, t) ==
    LET got == GetCircuitBreakerState(cb, service_name)
        cb_state == got[service_name]
    IN  IF cb_state.state = "open"
        THEN IF t - cb_state.last_failure_time >= CIRCUIT_BREAKER.timeout
             THEN [ok |-> TRUE,
                   circuit_breakers |->
                       DictSet(got, service_name,
                               [cb_state EXCEPT !.state = "half-open", !.success_count = 0])]
             ELSE [ok |-> FALSE, circuit_breakers |-> got]
        ELSE [ok |-> TRUE, circuit_breakers |-> got]

\* a variant in which a denial counts as a failure of the service
CheckCircuitBreakerDenialCounts(cb, service_name, t) ==
    LET got == GetCircuitBreakerState(cb, service_name)
        cb_state == got[service_name]
    IN  IF cb_state.state = "open"
        THEN IF t - cb_state.last_failure_time > CIRCUIT_BREAKER.timeout
             THEN [ok |-> TRUE,
                   circuit_breakers |->
                       DictSet(got, service_name,
                               [cb_state EXCEPT !.state = "half-open", !.success_count = 0])]
             ELSE [ok |-> FALSE,
                   circuit_breakers |->
                       DictSet(got, service_name, [cb_state EXCEPT !.failures = @ + 1])]
        ELSE [ok |-> TRUE, circuit_breakers |-> got]

\* a variant that lets requests through an open breaker
CheckCircuitBreakerOpenAllows(cb, service_name, t) ==
    LET got == GetCircuitBreakerState(cb, service_name)
        cb_state == got[service_name]
    IN  IF cb_state.state = "open"
        THEN IF t - cb_state.last_failure_time > CIRCUIT_BREAKER.timeout
             THEN [ok |-> TRUE,
                   circuit_breakers |->
                       DictSet(got, service_name,
                               [cb_state EXCEPT !.state = "half-open", !.success_count = 0])]
             ELSE [ok |-> TRUE, circuit_breakers |-> got]
        ELSE [ok |-> TRUE, circuit_breakers |-> got]

\* a variant in which an open breaker denies for ever
CheckCircuitBreakerStaysOpen(cb, service_name, t) ==
    LET got == GetCircuitBreakerState(cb, service_name)
        cb_state == got[service_name]
    IN  IF cb_state.state = "open"
        THEN [ok |-> FALSE, circuit_breakers |-> got]
        ELSE [ok |-> TRUE, circuit_breakers |-> got]

\* check_circuit_breaker at time t: what it returns (ok) and the dict afterwards
CheckCircuitBreaker(cb, service_name, t) ==
    LET got == GetCircuitBreakerState(cb, service_name)
        cb_state == got[service_name]
    IN  IF cb_state.state = "open"
        THEN IF t - cb_state.last_failure_time > CIRCUIT_BREAKER.timeout
             THEN [ok |-> TRUE,
                   circuit_breakers |->
                       DictSet(got, service_name,
                               [cb_state EXCEPT !.state = "half-open", !.success_count = 0])]
             ELSE [ok |-> FALSE, circuit_breakers |-> got]
        ELSE [ok |-> TRUE, circuit_breakers |-> got]

\* a variant that closes a half-open breaker without resetting failures
RecordSuccessKeepsFailures(cb, st, service_name) ==
    LET got == GetCircuitBreakerState(cb, service_name)
        cb_state == got[service_name]
        counted == [cb_state EXCEPT !.success_count = @ + 1]
        after == IF cb_state.state = "half-open"
                 THEN IF counted.success_count >= HALF_OPEN_SUCCESSES
                      THEN [counted EXCEPT !.state = "closed"]
                      ELSE counted
                 ELSE [cb_state EXCEPT !.failures = 0]
    IN  [circuit_breakers |-> DictSet(got, service_name, after),
         stats |-> [st EXCEPT !.successful_requests = @ + 1]]

\* a variant that records a success as a failed request as well
RecordSuccessAlsoFailed(cb, st, service_name) ==
    LET got == GetCircuitBreakerState(cb, service_name)
        cb_state == got[service_name]
        counted == [cb_state EXCEPT !.success_count = @ + 1]
        after == IF cb_state.state = "half-open"
                 THEN IF counted.success_count >= HALF_OPEN_SUCCESSES
                      THEN [counted EXCEPT !.state = "closed", !.failures = 0]
                      ELSE counted
                 ELSE [cb_state EXCEPT !.failures = 0]
    IN  [circuit_breakers |-> DictSet(got, service_name, after),
         stats |-> [st EXCEPT !.successful_requests = @ + 1, !.failed_requests = @ + 1]]

\* a variant in which a success on a closed breaker leaves failures as they are
RecordSuccessClosedKeeps(cb, st, service_name) ==
    LET got == GetCircuitBreakerState(cb, service_name)
        cb_state == got[service_name]
        counted == [cb_state EXCEPT !.success_count = @ + 1]
        after == IF cb_state.state = "half-open"
                 THEN IF counted.success_count >= HALF_OPEN_SUCCESSES
                      THEN [counted EXCEPT !.state = "closed", !.failures = 0]
                      ELSE counted
                 ELSE cb_state
    IN  [circuit_breakers |-> DictSet(got, service_name, after),
         stats |-> [st EXCEPT !.successful_requests = @ + 1]]

\* a variant in which a success recorded on an open breaker closes it
RecordSuccessClosesOpen(cb, st, service_name) ==
    LET got == GetCircuitBreakerState(cb, service_name)
        cb_state == got[service_name]
        counted == [cb_state EXCEPT !.success_count = @ + 1]
        after == IF cb_state.state = "half-open"
                 THEN IF counted.success_count >= HALF_OPEN_SUCCESSES
                      THEN [counted EXCEPT !.state = "closed", !.failures = 0]
                      ELSE counted
                 ELSE [cb_state EXCEPT !.failures = 0, !.state = "closed"]
    IN  [circuit_breakers |-> DictSet(got, service_name, after),
         stats |-> [st EXCEPT !.successful_requests = @ + 1]]

\* a variant that closes a half-open breaker on the third success only
RecordSuccessClosesLate(cb, st, service_name) ==
    LET got == GetCircuitBreakerState(cb, service_name)
        cb_state == got[service_name]
        counted == [cb_state EXCEPT !.success_count = @ + 1]
        after == IF cb_state.state = "half-open"
                 THEN IF counted.success_count > HALF_OPEN_SUCCESSES
                      THEN [counted EXCEPT !.state = "closed", !.failures = 0]
                      ELSE counted
                 ELSE [cb_state EXCEPT !.failures = 0]
    IN  [circuit_breakers |-> DictSet(got, service_name, after),
         stats |-> [st EXCEPT !.successful_requests = @ + 1]]

\* a variant that counts a success twice
RecordSuccessCountsTwice(cb, st, service_name) ==
    LET got == GetCircuitBreakerState(cb, service_name)
        cb_state == got[service_name]
        counted == [cb_state EXCEPT !.success_count = @ + 1]
        after == IF cb_state.state = "half-open"
                 THEN IF counted.success_count >= HALF_OPEN_SUCCESSES
                      THEN [counted EXCEPT !.state = "closed", !.failures = 0]
                      ELSE counted
                 ELSE [cb_state EXCEPT !.failures = 0]
    IN  [circuit_breakers |-> DictSet(got, service_name, after),
         stats |-> [st EXCEPT !.successful_requests = @ + 2]]

\* record_success: the breaker dict and the stats afterwards
RecordSuccess(cb, st, service_name) ==
    LET got == GetCircuitBreakerState(cb, service_name)
        cb_state == got[service_name]
        counted == [cb_state EXCEPT !.success_count = @ + 1]
        after == IF cb_state.state = "half-open"
                 THEN IF counted.success_count >= HALF_OPEN_SUCCESSES
                      THEN [counted EXCEPT !.state = "closed", !.failures = 0]
                      ELSE counted
                 ELSE [cb_state EXCEPT !.failures = 0]
    IN  [circuit_breakers |-> DictSet(got, service_name, after),
         stats |-> [st EXCEPT !.successful_requests = @ + 1]]

\* a variant that opens only above the threshold (>)
RecordFailureLate(cb, st, service_name, t) ==
    LET got == GetCircuitBreakerState(cb, service_name)
        cb_state == got[service_name]
        counted == [cb_state EXCEPT !.failures = @ + 1, !.last_failure_time = t]
        after == IF counted.state = "half-open"
                 THEN [counted EXCEPT !.state = "open"]
                 ELSE IF counted.failures > CIRCUIT_BREAKER.failure_threshold
                      THEN [counted EXCEPT !.state = "open"]
                      ELSE counted
    IN  [circuit_breakers |-> DictSet(got, service_name, after),
         stats |-> [st EXCEPT !.failed_requests = @ + 1]]

\* a variant that adds 2 to failures
RecordFailureTwice(cb, st, service_name, t) ==
    LET got == GetCircuitBreakerState(cb, service_name)
        cb_state == got[service_name]
        counted == [cb_state EXCEPT !.failures = @ + 2, !.last_failure_time = t]
        after == IF counted.state = "half-open"
                 THEN [counted EXCEPT !.state = "open"]
                 ELSE IF counted.failures >= CIRCUIT_BREAKER.failure_threshold
                      THEN [counted EXCEPT !.state = "open"]
                      ELSE counted
    IN  [circuit_breakers |-> DictSet(got, service_name, after),
         stats |-> [st EXCEPT !.failed_requests = @ + 1]]

\* record_failure at time t: the breaker dict and the stats afterwards
RecordFailure(cb, st, service_name, t) ==
    LET got == GetCircuitBreakerState(cb, service_name)
        cb_state == got[service_name]
        counted == [cb_state EXCEPT !.failures = @ + 1, !.last_failure_time = t]
        after == IF counted.state = "half-open"
                 THEN [counted EXCEPT !.state = "open"]
                 ELSE IF counted.failures >= CIRCUIT_BREAKER.failure_threshold
                      THEN [counted EXCEPT !.state = "open"]
                      ELSE counted
    IN  [circuit_breakers |-> DictSet(got, service_name, after),
         stats |-> [st EXCEPT !.failed_requests = @ + 1]]

(***************************************************************************)
(* APIGateway.find_service                                                 *)
(***************************************************************************)
RECURSIVE FindServiceFrom(_, _)
\* the for loop of find_service from the i-th route on
FindServiceFrom(path, i) ==
    IF i > Len(ROUTES)
    THEN NoService
    ELSE IF StartsWith(path, ROUTES[i].route_prefix)
         THEN ROUTES[i].service_name
         ELSE FindServiceFrom(path, i + 1)

\* a variant that wants the path to equal the prefix
FindServiceExact(path) ==
    IF \E i \in 1..Len(ROUTES) : ROUTES[i].route_prefix = path
    THEN ROUTES[CHOOSE i \in 1..Len(ROUTES) : ROUTES[i].route_prefix = path].service_name
    ELSE NoService

FindService(path) == FindServiceFrom(path, 1)

(***************************************************************************)
(* Initial state: a fresh InMemoryStorage, no request in progress.         *)
(***************************************************************************)
Conns == {1, 2}

Idle == [pc |-> "idle"]

NoResp == [status |-> 0]

NoCall == [op |-> "none"]

Init ==
    /\ now = 0
    /\ rate_limits = EmptyDict
    /\ circuit_breakers = EmptyDict
    /\ cache = EmptyDict
    /\ stats = [total_requests |-> 0, successful_requests |-> 0,
                failed_requests |-> 0, cached_requests |-> 0]
    /\ req = [c \in Conns |-> Idle]
    /\ resp = [c \in Conns |-> NoResp]
    /\ ret = NoCall
    /\ rl_calls = EmptyDict
    /\ cache_ins = EmptyDict
    /\ cb_consec = EmptyDict

(***************************************************************************)
(* The rate limiter on its own: check_rate_limit called as line 322 calls  *)
(* it, for two clients and every tier, while time passes.                  *)
(***************************************************************************)
RateUsers == {"u1", "u2"}

RateTiers == {"default", "anonymous", "premium", "gold"}

RateTicks == {RATE_WINDOW, RATE_WINDOW + 1}

CallBudget(u) == IF u = "u1" THEN MaxCalls ELSE MaxCallsOther

\* history: whether a call by u at time t opens a window (none yet, or the
\* one in progress was opened more than 60 seconds ago)
OpensWindow(u, t) ==
    IF u \in DOMAIN rl_calls THEN t > rl_calls[u].opened + 60 ELSE TRUE

\* history: the window in progress after a call by u with tier at time t
CallsAfter(u, tier, t) ==
    IF OpensWindow(u, t)
    THEN [n |-> 1, tier |-> tier, opened |-> t]
    ELSE [rl_calls[u] EXCEPT !.n = @ + 1,
                             !.tier = IF @ = tier THEN tier ELSE "mixed"]

CallCheckRateLimit(u, tier) ==
    /\ IF OpensWindow(u, now) THEN TRUE ELSE rl_calls[u].n < CallBudget(u)
    /\ LET r == CheckRateLimit(rate_limits, u, tier, now)
       IN  /\ rate_limits' = r.rate_limits
           /\ ret' = [op |-> "check_rate_limit", user |-> u, tier |-> tier, ok |-> r.ok]
    /\ rl_calls' = DictSet(rl_calls, u, CallsAfter(u, tier, now))
    /\ UNCHANGED <<now, circuit_breakers, cache, stats, req, resp, cache_ins, cb_consec>>

TickRate(d) ==
    /\ now + d <= MaxRateTime
    /\ now' = now + d
    /\ UNCHANGED <<rate_limits, circuit_breakers, cache, stats, req, resp,
                   ret, rl_calls, cache_ins, cb_consec>>

NextRate ==
    \/ \E u \in RateUsers, tier \in RateTiers : CallCheckRateLimit(u, tier)
    \/ \E d \in RateTicks : TickRate(d)

SpecRate == Init /\ [][NextRate]_vars

\* C1: in a window whose calls all assert one tier T, the k-th call of
\* check_rate_limit(C, T) is allowed exactly when k <= limit[T]; the call that
\* opens a window (the client's first, or the first made after reset_time has
\* passed) is allowed and leaves count = 1 and reset_time = now + 60, and the
\* window's reset_time stays what that call set.
C1_WindowAllowsFirstLimitCalls ==
    /\ ret.op = "check_rate_limit" =>
          LET w == rl_calls[ret.user]
          IN  /\ w.tier = ret.tier =>
                    (ret.ok <=> w.n <= RateLimitOf(ret.tier))
              /\ w.n = 1 => ret.ok /\ rate_limits[ret.user].count = 1
    /\ \A u \in DOMAIN rl_calls :
          /\ u \in DOMAIN rate_limits
          /\ rate_limits[u].reset_time = rl_calls[u].opened + 60

\* C1 witness: the 51st call of an all-anonymous window was denied, in a
\* window opened after an earlier one had expired.
C1_Witness ==
    /\ ret.op = "check_rate_limit"
    /\ ret.tier = "anonymous"
    /\ rl_calls[ret.user].tier = "anonymous"
    /\ rl_calls[ret.user].n = 51
    /\ rl_calls[ret.user].opened > 0
    /\ ~ret.ok


(***************************************************************************)
(* The cache on its own: cache_set and cache_get called as lines 354 and   *)
(* 384 call them, while time passes.                                       *)
(***************************************************************************)
MaxCacheTime == 602     \* the last instant of the cache's runs

CacheKeys == {CacheKey(P_users, Q_none), CacheKey(P_users, Q_a1)}

CacheValues == {None, JList(<< >>), JList(<<1>>)}

CacheTtls == {CACHE_TTL, 2 * CACHE_TTL}

CacheTicks == {CACHE_TTL, CACHE_TTL + 1}

CallCacheSet(k, v, ttl) ==
    /\ cache' = CacheSet(cache, k, v, ttl, now)
    /\ ret' = [op |-> "cache_set", key |-> k, at |-> now]
    /\ cache_ins' = DictSet(cache_ins, k, [value |-> v, at |-> now, ttl |-> ttl])
    /\ UNCHANGED <<now, rate_limits, circuit_breakers, stats, req, resp,
                   rl_calls, cb_consec>>

CallCacheGet(k) ==
    /\ LET r == CacheGet(cache, k, now)
       IN  /\ cache' = r.cache
           /\ ret' = [op |-> "cache_get", key |-> k, at |-> now, value |-> r.value]
    /\ UNCHANGED <<now, rate_limits, circuit_breakers, stats, req, resp,
                   rl_calls, cache_ins, cb_consec>>

TickCache(d) ==
    /\ now + d <= MaxCacheTime
    /\ now' = now + d
    /\ UNCHANGED <<rate_limits, circuit_breakers, cache, stats, req, resp,
                   ret, rl_calls, cache_ins, cb_consec>>

NextCache ==
    \/ \E k \in CacheKeys, v \in CacheValues, ttl \in CacheTtls : CallCacheSet(k, v, ttl)
    \/ \E k \in CacheKeys : CallCacheGet(k)
    \/ \E d \in CacheTicks : TickCache(d)

SpecCache == Init /\ [][NextCache]_vars

\* C4: right after cache_get(k), where the last cache_set(k, v, ttl) was made
\* at time t0: if now <= t0 + ttl the call returned v and the entry is still
\* there with expires_at = t0 + ttl (no hit has moved it); if now > t0 + ttl
\* the call returned absent and the cache does not contain k.
C4_ExpiryFixedAtInsertion ==
    (ret.op = "cache_get" /\ ret.at = now /\ ret.key \in DOMAIN cache_ins) =>
        LET ins == cache_ins[ret.key]
        IN  IF now <= ins.at + ins.ttl
            THEN /\ ret.value = ins.value
                 /\ ret.key \in DOMAIN cache
                 /\ cache[ret.key] = [value |-> ins.value, expires_at |-> ins.at + ins.ttl]
            ELSE /\ ret.value = None
                 /\ ret.key \notin DOMAIN cache

\* C4 witness: a cache_get exactly at the expiry instant of an entry set 300
\* seconds earlier, which returned the stored list.
C4_Witness ==
    /\ ret.op = "cache_get"
    /\ ret.at = now
    /\ ret.key \in DOMAIN cache_ins
    /\ cache_ins[ret.key].at + cache_ins[ret.key].ttl = now
    /\ cache_ins[ret.key].ttl = CACHE_TTL
    /\ ret.value = JList(<<1>>)


(***************************************************************************)
(* gateway_middleware.  The event loop runs a request's code without       *)
(* interruption from one await to the next, so the middleware is one       *)
(* action per stretch: Enter (lines 291-371, up to the first await),       *)
(* ReadBody (the return of request.body() and forward_request up to the    *)
(* await of the backend call, lines 371-224), the return of that call      *)
(* with a response or an exception (lines 224-424), and the return of      *)
(* call_next for a gateway-owned path (line 302).                          *)
(***************************************************************************)
\* the paths the middleware hands to the local handlers
GATEWAY_PATHS == {P_health, P_metrics, P_docs, P_openapi}

\* request.headers.get(name, default)
HeaderGet(value, default) == IF value = NoHeader THEN default ELSE value

\* service_name before line 304 assigns it
Unset == "<unset>"

\* X-Service of the two except handlers
ServiceOrUnknown(service_name) == IF service_name = Unset THEN "unknown" ELSE service_name

NoReply == [kind |-> "none"]

\* a response built by the middleware: every JSONResponse in it sets
\* X-Request-ID, X-Response-Time and X-Service
GatewayResponse(status, service, x_cache, content) ==
    [status |-> status, request_id |-> TRUE, response_time |-> TRUE,
     service |-> service, x_cache |-> x_cache, content |-> content]

\* a response of a local handler, passed on as call_next returned it
LocalResponse(status) ==
    [status |-> status, request_id |-> FALSE, response_time |-> FALSE,
     service |-> NoHeader, x_cache |-> NoHeader, content |-> None]

ErrorContent(text) == [t |-> "dict", error |-> text]

\* a variant that asks the breaker before the rate limiter
GatesBreakerFirst(method, path, query, user_hdr, tier_hdr) ==
    LET same == [service_name |-> Unset, rate_limits |-> rate_limits,
                 circuit_breakers |-> circuit_breakers, cache |-> cache,
                 cached_response |-> None]
    IN  IF path \in GATEWAY_PATHS
        THEN [same EXCEPT !.service_name = Unset] @@ [gate |-> "bypass"]
        ELSE
        LET service_name == FindService(path)
        IN  IF service_name = NoService
            THEN [same EXCEPT !.service_name = service_name] @@ [gate |-> "unrouted"]
            ELSE
            LET user_id == HeaderGet(user_hdr, "anonymous")
                tier == HeaderGet(tier_hdr, "default")
                cbr == CheckCircuitBreaker(circuit_breakers, service_name, now)
                routed == [same EXCEPT !.service_name = service_name,
                                       !.circuit_breakers = cbr.circuit_breakers]
            IN  IF ~cbr.ok
                THEN routed @@ [gate |-> "circuit_open"]
                ELSE
                LET rl == CheckRateLimit(rate_limits, user_id, tier, now)
                    checked == [routed EXCEPT !.rate_limits = rl.rate_limits]
                IN  IF ~rl.ok
                    THEN checked @@ [gate |-> "rate_limited"]
                    ELSE
                    IF method = "GET"
                    THEN LET got == CacheGet(cache, CacheKey(path, query), now)
                             looked == [checked EXCEPT !.cache = got.cache,
                                                       !.cached_response = got.value]
                         IN  IF Truthy(got.value)
                             THEN looked @@ [gate |-> "cache_hit"]
                             ELSE looked @@ [gate |-> "forward"]
                    ELSE checked @@ [gate |-> "forward"]

\* lines 299-368: the gates a request passes before the first await, with
\* the stores as each gate leaves them
Gates(method, path, query, user_hdr, tier_hdr) ==
    LET same == [service_name |-> Unset, rate_limits |-> rate_limits,
                 circuit_breakers |-> circuit_breakers, cache |-> cache,
                 cached_response |-> None]
    IN  IF path \in GATEWAY_PATHS
        THEN [same EXCEPT !.service_name = Unset] @@ [gate |-> "bypass"]
        ELSE
        LET service_name == FindService(path)
        IN  IF service_name = NoService
            THEN [same EXCEPT !.service_name = service_name] @@ [gate |-> "unrouted"]
            ELSE
            LET user_id == HeaderGet(user_hdr, "anonymous")
                tier == HeaderGet(tier_hdr, "default")
                rl == CheckRateLimit(rate_limits, user_id, tier, now)
                routed == [same EXCEPT !.service_name = service_name,
                                       !.rate_limits = rl.rate_limits]
            IN  IF ~rl.ok
                THEN routed @@ [gate |-> "rate_limited"]
                ELSE
                LET cbr == CheckCircuitBreaker(circuit_breakers, service_name, now)
                    checked == [routed EXCEPT !.circuit_breakers = cbr.circuit_breakers]
                IN  IF ~cbr.ok
                    THEN checked @@ [gate |-> "circuit_open"]
                    ELSE
                    IF method = "GET"
                    THEN LET got == CacheGet(cache, CacheKey(path, query), now)
                             looked == [checked EXCEPT !.cache = got.cache,
                                                       !.cached_response = got.value]
                         IN  IF Truthy(got.value)
                             THEN looked @@ [gate |-> "cache_hit"]
                             ELSE looked @@ [gate |-> "forward"]
                    ELSE checked @@ [gate |-> "forward"]

\* the response of a request that ends at a gate
GateResponse(g) ==
    CASE g.gate = "unrouted" ->
            GatewayResponse(404, "none", NoHeader, ErrorContent("Route not found"))
      [] g.gate = "rate_limited" ->
            GatewayResponse(429, g.service_name, NoHeader, ErrorContent("Rate limit exceeded"))
      [] g.gate = "circuit_open" ->
            GatewayResponse(503, g.service_name, NoHeader,
                            ErrorContent("Service temporarily unavailable"))
      [] g.gate = "cache_hit" ->
            GatewayResponse(200, g.service_name, "HIT", g.cached_response)
      [] OTHER -> [status |-> 0]

\* where the request stands after the gates
PcAfterGates(g) ==
    CASE g.gate = "bypass" -> "call_next"
      [] g.gate = "forward" -> "body"
      [] OTHER -> "done"

\* whether a request met check_rate_limit (line 322)
RateChecked(g) == g.gate \notin {"bypass", "unrouted"}

Enter(c, method, path, query, user_hdr, tier_hdr) ==
    /\ req[c].pc \in {"idle", "done"}
    /\ LET g == Gates(method, path, query, user_hdr, tier_hdr)
           user_id == HeaderGet(user_hdr, "anonymous")
           tier == HeaderGet(tier_hdr, "default")
       IN  /\ stats' = [stats EXCEPT
                           !.total_requests = @ + 1,
                           !.cached_requests = IF g.gate = "cache_hit" THEN @ + 1 ELSE @]
           /\ rate_limits' = g.rate_limits
           /\ circuit_breakers' = g.circuit_breakers
           /\ cache' = g.cache
           /\ req' = [req EXCEPT ![c] =
                         [pc |-> PcAfterGates(g), serial |-> stats.total_requests + 1,
                          method |-> method, path |-> path,
                          query |-> query,
                          service_name |-> g.service_name, gate |-> g.gate,
                          forwarded |-> FALSE, sent_at |-> 0, backend |-> NoReply,
                          t_done |-> IF PcAfterGates(g) = "done" THEN now ELSE 0,
                          count |-> IF RateChecked(g)
                                    THEN g.rate_limits[user_id].count ELSE 0]]
           /\ resp' = [resp EXCEPT ![c] = GateResponse(g)]
           /\ rl_calls' = IF RateChecked(g)
                          THEN DictSet(rl_calls, user_id, CallsAfter(user_id, tier, now))
                          ELSE rl_calls
    /\ UNCHANGED <<now, ret, cache_ins, cb_consec>>

\* request.body() returns and forward_request sends the request to the backend
ReadBody(c) ==
    /\ req[c].pc = "body"
    /\ req' = [req EXCEPT ![c].pc = "backend", ![c].forwarded = TRUE, ![c].sent_at = now]
    /\ UNCHANGED <<now, rate_limits, circuit_breakers, cache, stats, resp,
                   ret, rl_calls, cache_ins, cb_consec>>

\* response.json(): the value, or that it raises (an empty or malformed body)
ResponseJson(body) ==
    IF body.t = "json"
    THEN [raises |-> FALSE, value |-> body.v]
    ELSE [raises |-> TRUE, value |-> None]

\* a variant in which an exception of response.json() leaves the middleware
\* (no response is built)
AfterForwardUncaught(r, status, body) ==
    LET json == ResponseJson(body)
        store == r.method = "GET" /\ status = 200
        internal == [cache |-> cache, resp |-> NoResp]
    IN  IF store /\ json.raises
        THEN internal
        ELSE
        LET stored == IF store
                      THEN CacheSet(cache, CacheKey(r.path, r.query), json.value, CACHE_TTL, now)
                      ELSE cache
        IN  IF body.t = "empty"
            THEN [cache |-> stored,
                  resp |-> GatewayResponse(status, r.service_name, "MISS", None)]
            ELSE IF json.raises
                 THEN [internal EXCEPT !.cache = stored]
                 ELSE [cache |-> stored,
                       resp |-> GatewayResponse(status, r.service_name, "MISS", json.value)]

\* a variant that stores the answer to a GET whatever its status
AfterForwardStoresAnyStatus(r, status, body) ==
    LET json == ResponseJson(body)
        store == r.method = "GET"
        internal == [cache |-> cache,
                     resp |-> GatewayResponse(500, ServiceOrUnknown(r.service_name), NoHeader,
                                              ErrorContent("Internal server error"))]
    IN  IF store /\ json.raises
        THEN internal
        ELSE
        LET stored == IF store
                      THEN CacheSet(cache, CacheKey(r.path, r.query), json.value, CACHE_TTL, now)
                      ELSE cache
        IN  IF body.t = "empty"
            THEN [cache |-> stored,
                  resp |-> GatewayResponse(status, r.service_name, "MISS", None)]
            ELSE IF json.raises
                 THEN [internal EXCEPT !.cache = stored]
                 ELSE [cache |-> stored,
                       resp |-> GatewayResponse(status, r.service_name, "MISS", json.value)]

\* lines 382-398 and 413-424: what follows the backend's response
AfterForward(r, status, body) ==
    LET json == ResponseJson(body)
        store == r.method = "GET" /\ status = 200
        internal == [cache |-> cache,
                     resp |-> GatewayResponse(500, ServiceOrUnknown(r.service_name), NoHeader,
                                              ErrorContent("Internal server error"))]
    IN  IF store /\ json.raises
        THEN internal
        ELSE
        LET stored == IF store
                      THEN CacheSet(cache, CacheKey(r.path, r.query), json.value, CACHE_TTL, now)
                      ELSE cache
        IN  IF body.t = "empty"
            THEN [cache |-> stored,
                  resp |-> GatewayResponse(status, r.service_name, "MISS", None)]
            ELSE IF json.raises
                 THEN [internal EXCEPT !.cache = stored]
                 ELSE [cache |-> stored,
                       resp |-> GatewayResponse(status, r.service_name, "MISS", json.value)]

\* history: the service's failures since its last recorded success
ConsecAfter(service_name, failed) ==
    DictSet(cb_consec, service_name,
            IF failed
            THEN (IF service_name \in DOMAIN cb_consec THEN cb_consec[service_name] ELSE 0) + 1
            ELSE 0)

\* a variant that records a 5xx answer of the backend as a failure
BackendRespondsErrorFails(c, status, body) ==
    /\ req[c].pc = "backend"
    /\ LET r == req[c]
           rs == IF status >= 500
                 THEN RecordFailure(circuit_breakers, stats, r.service_name, now)
                 ELSE RecordSuccess(circuit_breakers, stats, r.service_name)
           a == AfterForward(r, status, body)
       IN  /\ circuit_breakers' = rs.circuit_breakers
           /\ stats' = rs.stats
           /\ cache' = a.cache
           /\ resp' = [resp EXCEPT ![c] = a.resp]
           /\ req' = [req EXCEPT ![c].pc = "done", ![c].sent_at = 0, ![c].t_done = now,
                                 ![c].backend = [kind |-> "response", status |-> status]]
           /\ cb_consec' = ConsecAfter(r.service_name, status >= 500)
    /\ UNCHANGED <<now, rate_limits, ret, rl_calls, cache_ins>>

\* the backend call returns a response: record_success, then lines 382-398
BackendResponds(c, status, body) ==
    /\ req[c].pc = "backend"
    /\ LET r == req[c]
           rs == RecordSuccess(circuit_breakers, stats, r.service_name)
           a == AfterForward(r, status, body)
       IN  /\ circuit_breakers' = rs.circuit_breakers
           /\ stats' = rs.stats
           /\ cache' = a.cache
           /\ resp' = [resp EXCEPT ![c] = a.resp]
           /\ req' = [req EXCEPT ![c].pc = "done", ![c].sent_at = 0, ![c].t_done = now,
                                 ![c].backend = [kind |-> "response", status |-> status]]
           /\ cb_consec' = ConsecAfter(r.service_name, FALSE)
    /\ UNCHANGED <<now, rate_limits, ret, rl_calls, cache_ins>>

\* the status forward_request gives each exception of the backend call
FailureStatus(kind) ==
    CASE kind = "timeout" -> 504
      [] kind = "connect" -> 503
      [] OTHER -> 502

\* the backend call raises: record_failure, HTTPException, lines 400-411
BackendFails(c, kind) ==
    /\ req[c].pc = "backend"
    /\ kind = "timeout" => now - req[c].sent_at >= SERVICES[req[c].service_name].timeout
    /\ LET r == req[c]
           rf == RecordFailure(circuit_breakers, stats, r.service_name, now)
       IN  /\ circuit_breakers' = rf.circuit_breakers
           /\ stats' = rf.stats
           /\ resp' = [resp EXCEPT ![c] =
                          GatewayResponse(FailureStatus(kind), ServiceOrUnknown(r.service_name),
                                          NoHeader, ErrorContent(kind))]
           /\ req' = [req EXCEPT ![c].pc = "done", ![c].sent_at = 0, ![c].t_done = now,
                                 ![c].backend = [kind |-> kind]]
           /\ cb_consec' = ConsecAfter(r.service_name, TRUE)
    /\ UNCHANGED <<now, rate_limits, cache, ret, rl_calls, cache_ins>>

\* the status of the local handler: the handlers are registered for GET
LocalStatus(method) == IF method = "GET" THEN 200 ELSE 405

\* call_next returns the local handler's response, which is passed on as it is
LocalResponds(c) ==
    /\ req[c].pc = "call_next"
    /\ resp' = [resp EXCEPT ![c] = LocalResponse(LocalStatus(req[c].method))]
    /\ req' = [req EXCEPT ![c].pc = "done", ![c].t_done = now]
    /\ UNCHANGED <<now, rate_limits, circuit_breakers, cache, stats,
                   ret, rl_calls, cache_ins, cb_consec>>

Tick(d, max) ==
    /\ now + d <= max
    /\ now' = now + d
    /\ UNCHANGED <<rate_limits, circuit_breakers, cache, stats, req, resp,
                   ret, rl_calls, cache_ins, cb_consec>>

(***************************************************************************)
(* The gateway serving one request at a time.                              *)
(***************************************************************************)
MaxRequests == 3        \* requests served in a run
MaxTime == 301          \* the last instant of a run

Methods == {"GET", "POST"}

Paths == {P_users, P_unknown, P_root, P_health}

Queries == {Q_none, Q_a1}

UserHeaders == {"u1", NoHeader}

TierHeaders == {NoHeader}

BackendStatuses == {200, 500}

BackendBodies == {[t |-> "json", v |-> JList(<< >>)], [t |-> "json", v |-> JList(<<1>>)],
                  [t |-> "empty"], [t |-> "garbage"]}

FailureKinds == {"timeout", "connect", "other"}

Ticks == {CACHE_TTL, CACHE_TTL + 1}

Next ==
    \/ \E m \in Methods, p \in Paths, q \in Queries, u \in UserHeaders, t \in TierHeaders :
          /\ stats.total_requests < MaxRequests
          /\ Enter(1, m, p, q, u, t)
    \/ ReadBody(1)
    \/ \E st \in BackendStatuses, b \in BackendBodies : BackendResponds(1, st, b)
    \/ \E k \in FailureKinds : BackendFails(1, k)
    \/ LocalResponds(1)
    \/ \E d \in Ticks : Tick(d, MaxTime)

Spec == Init /\ [][Next]_vars


(***************************************************************************)
(* The circuit breaker of one service under requests that all reach it:    *)
(* the backend answers, times out or refuses, while time passes.           *)
(***************************************************************************)
MaxBreakerRequests == 8     \* requests served in a run
MaxBreakerTime == 122       \* the last instant of a run

BreakerTicks == {CIRCUIT_BREAKER.timeout, CIRCUIT_BREAKER.timeout + 1}

NextBreaker ==
    \/ /\ stats.total_requests < MaxBreakerRequests
       /\ Enter(1, "POST", P_users, Q_none, NoHeader, NoHeader)
    \/ ReadBody(1)
    \/ \E st \in BackendStatuses : BackendResponds(1, st, [t |-> "json", v |-> JList(<<1>>)])
    \/ \E k \in FailureKinds : BackendFails(1, k)
    \/ \E d \in BreakerTicks : Tick(d, MaxBreakerTime)

SpecBreaker == Init /\ [][NextBreaker]_vars

(***************************************************************************)
(* Route resolution: GET requests to declared prefixes, to paths under and *)
(* beside them, and to the gateway's own paths, with a backend that        *)
(* answers.                                                                *)
(***************************************************************************)
MaxRouteRequests == 2       \* requests served in a run

RoutePaths == {P_users, P_products, P_orders, P_users_1, P_usersx, P_user, P_API_users,
               P_unknown, P_root, P_health, P_metrics, P_docs, P_openapi}

NextRoute ==
    \/ \E p \in RoutePaths :
          /\ stats.total_requests < MaxRouteRequests
          /\ Enter(1, "GET", p, Q_none, NoHeader, NoHeader)
    \/ ReadBody(1)
    \/ BackendResponds(1, 200, [t |-> "json", v |-> JList(<<1>>)])
    \/ LocalResponds(1)

SpecRoute == Init /\ [][NextRoute]_vars


(***************************************************************************)
(* The gates in turn.  Client u1 (default tier) sends a few requests to    *)
(* the users service, which answers reads and refuses writes, and to an    *)
(* undeclared path, and leaves.  Once the breaker timeout has passed, u2   *)
(* (anonymous tier, 50 per window) reads the product list, which is served *)
(* and then cached, and turns to the users service when its quota is used  *)
(* up.  The clients share the gateway's storage and nothing else.          *)
(***************************************************************************)
MaxGateUserCalls == 7       \* requests of u1 in a run
MaxGateFillerCalls == 52    \* requests of u2 in a window
MaxGateTime == 61           \* the last instant of a run

GateTicks == {CIRCUIT_BREAKER.timeout + 1}

\* history: the calls of check_rate_limit by u in its window in progress
WindowCalls(u) == IF u \in DOMAIN rl_calls THEN rl_calls[u].n ELSE 0

GateUserRequests ==
    {[method |-> "GET", path |-> P_users], [method |-> "POST", path |-> P_users],
     [method |-> "GET", path |-> P_unknown]}

GateFillerPaths == {P_products, P_users}

\* the backends of this run: products answers, users answers a GET
GateBackendResponds(c) ==
    /\ req[c].pc = "backend"
    /\ IF req[c].service_name = "users" THEN req[c].method = "GET" ELSE TRUE
    /\ BackendResponds(c, 200, [t |-> "json", v |-> JList(<<1>>)])

\* and users refuses the connection of a POST
GateBackendFails(c) ==
    /\ req[c].pc = "backend"
    /\ req[c].service_name = "users"
    /\ req[c].method = "POST"
    /\ BackendFails(c, "connect")

NextGate ==
    \/ \E r \in GateUserRequests :
          /\ now <= CIRCUIT_BREAKER.timeout
          /\ stats.total_requests < MaxGateUserCalls
          /\ Enter(1, r.method, r.path, Q_none, "u1", NoHeader)
    \/ \E p \in GateFillerPaths :
          /\ now > CIRCUIT_BREAKER.timeout
          /\ WindowCalls("u2") < MaxGateFillerCalls
          /\ IF p = P_users THEN WindowCalls("u2") >= RATE_LIMITS["anonymous"] ELSE TRUE
          /\ Enter(1, "GET", p, Q_none, "u2", "anonymous")
    \/ ReadBody(1)
    \/ GateBackendResponds(1)
    \/ GateBackendFails(1)
    \/ \E d \in GateTicks : Tick(d, MaxGateTime)

SpecGate == Init /\ [][NextGate]_vars

(***************************************************************************)
(* Two requests served concurrently: the event loop switches between the   *)
(* two connections at the awaits (request.body(), the backend call), so    *)
(* the stretches of the two requests interleave in every order.  One       *)
(* client posts to the users service, which answers or refuses.            *)
(***************************************************************************)
MaxConcRequests == 7        \* requests served in a run
MaxConcTime == 61           \* the last instant of a run

ConcTicks == {CIRCUIT_BREAKER.timeout + 1}

NextConc ==
    \/ \E c \in Conns :
          /\ stats.total_requests < MaxConcRequests
          /\ Enter(c, "POST", P_users, Q_none, "u1", NoHeader)
    \/ \E c \in Conns : ReadBody(c)
    \/ \E c \in Conns : BackendResponds(c, 200, [t |-> "json", v |-> JList(<<1>>)])
    \/ \E c \in Conns : BackendFails(c, "connect")
    \/ \E d \in ConcTicks : Tick(d, MaxConcTime)

SpecConc == Init /\ [][NextConc]_vars

(***************************************************************************)
(* The pipeline from arrival to response, with every await returning: the  *)
(* event loop resumes a coroutine whose await has completed, request.body()*)
(* and call_next return, and the backend call returns or raises (at the    *)
(* latest when the timeout given at line 230 expires).                     *)
(***************************************************************************)
MaxPipeRequests == 2        \* requests served in a run
MaxPipeTime == 10           \* the last instant of a run

PipePaths == {P_users, P_unknown, P_health}

PipeTicks == {SERVICES["users"].timeout}

BackendReturns(c) ==
    \/ \E st \in BackendStatuses, b \in BackendBodies : BackendResponds(c, st, b)
    \/ \E k \in FailureKinds : BackendFails(c, k)

NextPipe ==
    \/ \E m \in Methods, p \in PipePaths :
          /\ stats.total_requests < MaxPipeRequests
          /\ Enter(1, m, p, Q_none, NoHeader, NoHeader)
    \/ ReadBody(1)
    \/ BackendReturns(1)
    \/ LocalResponds(1)
    \/ \E d \in PipeTicks : Tick(d, MaxPipeTime)

SpecPipe ==
    /\ Init /\ [][NextPipe]_vars
    /\ WF_vars(ReadBody(1))
    /\ WF_vars(BackendReturns(1))
    /\ WF_vars(LocalResponds(1))

(***************************************************************************)
(* Recovery of a breaker.  The users backend refuses at most 5 calls and   *)
(* answers every other; POST requests (never served from the cache) keep   *)
(* arriving, one at a time; while the breaker is open and inside its       *)
(* timeout, time passes.  Every await returns.                             *)
(***************************************************************************)
MaxRecoverAttempts == 9     \* requests forwarded in a run
MaxRecoverDenials == 2      \* requests arriving at an open breaker in a run
MaxRecoverTime == 122       \* the last instant of a run

RecoverTicks == {CIRCUIT_BREAKER.timeout, CIRCUIT_BREAKER.timeout + 1}

\* the breaker of users is open and its timeout has not passed
OpenAndWaiting ==
    IF "users" \in DOMAIN circuit_breakers
    THEN /\ circuit_breakers["users"].state = "open"
         /\ now - circuit_breakers["users"].last_failure_time <= CIRCUIT_BREAKER.timeout
    ELSE FALSE

Attempts == stats.successful_requests + stats.failed_requests

RecoverArrives ==
    /\ IF OpenAndWaiting
       THEN stats.total_requests - Attempts < MaxRecoverDenials
       ELSE Attempts < MaxRecoverAttempts
    /\ Enter(1, "POST", P_users, Q_none, NoHeader, NoHeader)

RecoverResponds ==
    \E st \in BackendStatuses : BackendResponds(1, st, [t |-> "json", v |-> JList(<<1>>)])

\* the backend refuses at most failure_threshold calls, early enough in the
\* run for two more requests to be forwarded
RecoverFails ==
    /\ stats.failed_requests < CIRCUIT_BREAKER.failure_threshold
    /\ Attempts < MaxRecoverAttempts - HALF_OPEN_SUCCESSES
    /\ BackendFails(1, "connect")

RecoverTick ==
    /\ OpenAndWaiting
    /\ \E d \in RecoverTicks : Tick(d, MaxRecoverTime)

NextRecover ==
    \/ RecoverArrives
    \/ ReadBody(1)
    \/ RecoverResponds
    \/ RecoverFails
    \/ RecoverTick

SpecRecover ==
    /\ Init /\ [][NextRecover]_vars
    /\ WF_vars(RecoverArrives)
    /\ WF_vars(ReadBody(1))
    /\ WF_vars(RecoverResponds)
    /\ WF_vars(RecoverTick)

(***************************************************************************)
(* A backend that answers with error statuses: the users service answers   *)
(* 200, 404 or 500, or refuses the connection, while time passes.          *)
(***************************************************************************)
MaxStatusRequests == 8      \* requests served in a run
MaxStatusTime == 61         \* the last instant of a run

StatusCodes == {200, 404, 500}

StatusTicks == {CIRCUIT_BREAKER.timeout + 1}

NextStatus ==
    \/ /\ stats.total_requests < MaxStatusRequests
       /\ Enter(1, "POST", P_users, Q_none, NoHeader, NoHeader)
    \/ ReadBody(1)
    \/ \E st \in StatusCodes : BackendResponds(1, st, [t |-> "json", v |-> JList(<<1>>)])
    \/ BackendFails(1, "connect")
    \/ \E d \in StatusTicks : Tick(d, MaxStatusTime)

SpecStatus == Init /\ [][NextStatus]_vars

(***************************************************************************)
(* The counters under concurrency: two connections, GET and POST requests  *)
(* to the users service, to an undeclared path and to /health, a backend   *)
(* that answers or refuses.                                                *)
(***************************************************************************)
MaxCountRequests == 5       \* requests served in a run

CountRequests ==
    {[method |-> "GET", path |-> P_users], [method |-> "POST", path |-> P_users],
     [method |-> "GET", path |-> P_unknown], [method |-> "GET", path |-> P_health]}

NextCount ==
    \/ \E c \in Conns, r \in CountRequests :
          /\ stats.total_requests < MaxCountRequests
          /\ Enter(c, r.method, r.path, Q_none, "u1", NoHeader)
    \/ \E c \in Conns : ReadBody(c)
    \/ \E c \in Conns : BackendResponds(c, 200, [t |-> "json", v |-> JList(<<1>>)])
    \/ \E c \in Conns : BackendFails(c, "connect")
    \/ \E c \in Conns : LocalResponds(c)

SpecCount == Init /\ [][NextCount]_vars

(***************************************************************************)
(* Steps of a request, as the properties below recognise them.             *)
(***************************************************************************)
\* a step in which a new request arrives on connection c
EnterStep(c) ==
    /\ req'[c].pc # "idle"
    /\ IF req[c].pc = "idle" THEN TRUE ELSE req'[c].serial # req[c].serial

\* a step in which the backend call of c's request returns or raises
OutcomeStep(c) == req[c].pc = "backend" /\ req'[c].pc = "done"

\* the failures field of a service's breaker, 0 while it has no record
FailuresOf(cb, service_name) ==
    IF service_name \in DOMAIN cb THEN cb[service_name].failures ELSE 0

\* history: the service's recorded failures since its last recorded success
ConsecOf(service_name) ==
    IF service_name \in DOMAIN cb_consec THEN cb_consec[service_name] ELSE 0

\* C2 (state part): a closed breaker has seen fewer than 5 failures since the
\* last success, so the failure that makes it 5 opens it; a request the
\* breaker denied has made no backend call.
C2_ClosedBelowThreshold ==
    /\ \A sv \in DOMAIN circuit_breakers :
          circuit_breakers[sv].state = "closed" => ConsecOf(sv) < 5
    /\ \A c \in Conns :
          (req[c].pc # "idle" /\ req[c].gate = "circuit_open") =>
              /\ req[c].pc = "done"
              /\ ~req[c].forwarded
              /\ resp[c].status = 503

\* C2 (step part): a request that arrives for a service whose breaker is open
\* with now - last_failure_time <= 60, and that passes the rate check, is
\* denied by check_circuit_breaker, answered 503 at once and leaves the
\* breaker as it was.
C2_OpenDeniesStep ==
    \A c \in Conns :
        (/\ EnterStep(c)
         /\ req'[c].service_name \in DOMAIN circuit_breakers
         /\ circuit_breakers[req'[c].service_name].state = "open"
         /\ now - circuit_breakers[req'[c].service_name].last_failure_time <= 60
         /\ req'[c].gate # "rate_limited")
        => /\ req'[c].gate = "circuit_open"
           /\ req'[c].pc = "done"
           /\ ~req'[c].forwarded
           /\ resp'[c].status = 503
           /\ circuit_breakers' = circuit_breakers

\* C2: five consecutive failures open a closed breaker, and an open breaker
\* denies every request, without forwarding it, while now - last_failure_time <= 60.
C2_ThresholdOpensAndDenies == [](C2_ClosedBelowThreshold) /\ [][C2_OpenDeniesStep]_vars

\* C2 witness: the breaker of users is open after exactly 5 failures, and a
\* request arriving 60 seconds after the last of them was denied.
C2_Witness ==
    /\ "users" \in DOMAIN circuit_breakers
    /\ circuit_breakers["users"].state = "open"
    /\ circuit_breakers["users"].failures = 5
    /\ ConsecOf("users") = 5
    /\ now = circuit_breakers["users"].last_failure_time + 60
    /\ req[1].pc = "done"
    /\ req[1].gate = "circuit_open"
    /\ req[1].t_done = now

\* the steps C3 speaks of: on a half-open breaker, a recorded success with no success
\* counted leaves it half-open with one counted, a recorded success with one
\* counted closes it with failures = 0, and a recorded failure opens it
\* whatever was counted; and every step into half-open sets the count to 0.
C3_HalfOpenStep ==
    /\ \A c \in Conns :
          (/\ OutcomeStep(c)
           /\ req[c].service_name \in DOMAIN circuit_breakers
           /\ circuit_breakers[req[c].service_name].state = "half-open")
          => LET before == circuit_breakers[req[c].service_name]
                 after == circuit_breakers'[req[c].service_name]
             IN  IF req'[c].backend.kind = "response"
                 THEN IF before.success_count = 0
                      THEN after.state = "half-open" /\ after.success_count = 1
                      ELSE /\ before.success_count = 1
                           /\ after.state = "closed"
                           /\ after.failures = 0
                 ELSE after.state = "open"
    /\ \A sv \in DOMAIN circuit_breakers' :
          (/\ circuit_breakers'[sv].state = "half-open"
           /\ (sv \in DOMAIN circuit_breakers => circuit_breakers[sv].state # "half-open"))
          => circuit_breakers'[sv].success_count = 0

\* C3: a half-open breaker closes on exactly 2 consecutive successes, with
\* failures reset to 0, opens on a single failure after 0 or 1 successes, and
\* starts every half-open period from a success count of 0.
C3_HalfOpenTransitions == [][C3_HalfOpenStep]_vars

\* C3 witness: the breaker is half-open for the second time, with no success
\* counted, after a half-open period that counted one success and then failed.
C3_Witness ==
    /\ "users" \in DOMAIN circuit_breakers
    /\ circuit_breakers["users"].state = "half-open"
    /\ circuit_breakers["users"].success_count = 0
    /\ circuit_breakers["users"].failures = 6
    /\ stats.successful_requests = 1
    /\ req[1].pc = "body"


\* the step C5 speaks of: when a GET that passed both gates was answered by the
\* backend with 200 and a JSON payload, and the next request is a GET to the
\* same path and query that passes both gates no later than 300 seconds after
\* the first ended, then the first was a MISS whose payload is in the cache
\* and the second is answered at once, without a backend call, as a HIT with
\* the same payload.
C5_SecondGetStep ==
    \A c \in Conns :
        (/\ req[c].pc = "done"
         /\ req[c].method = "GET"
         /\ req[c].gate = "forward"
         /\ req[c].backend = [kind |-> "response", status |-> 200]
         /\ resp[c].status = 200
         /\ EnterStep(c)
         /\ req'[c].method = "GET"
         /\ req'[c].path = req[c].path
         /\ req'[c].query = req[c].query
         /\ req'[c].gate \in {"cache_hit", "forward"}
         /\ now <= req[c].t_done + CACHE_TTL)
        => /\ req[c].forwarded
           /\ resp[c].x_cache = "MISS"
           /\ CacheKey(req[c].path, req[c].query) \in DOMAIN cache
           /\ cache[CacheKey(req[c].path, req[c].query)].value = resp[c].content
           /\ req'[c].pc = "done"
           /\ ~req'[c].forwarded
           /\ resp'[c].x_cache = "HIT"
           /\ resp'[c].content = resp[c].content

\* C5 as claimed: of two consecutive GETs to one path and query within the
\* TTL, the backend answering the first with 200 and a JSON payload, the first
\* is a MISS that stores the payload and the second a HIT with the same
\* payload and no backend call.
C5_SecondGetIsHit == [][C5_SecondGetStep]_vars

\* the first matching route of a path, by definition: the least index whose
\* prefix the path starts with (0 when there is none)
FirstMatch(path) ==
    LET matching == {i \in 1..Len(ROUTES) : StartsWith(path, ROUTES[i].route_prefix)}
    IN  IF matching = {} THEN 0 ELSE CHOOSE i \in matching : \A j \in matching : i <= j

\* C6: every request outside the gateway's own paths is resolved to the
\* service of the first declared prefix its path starts with, each declared
\* prefix resolving to its own service; a path that starts with none is
\* unrouted and answered 404 with X-Service: none.
C6_FirstPrefixWins ==
    /\ \A i \in 1..Len(ROUTES) :
          FindService(ROUTES[i].route_prefix) = ROUTES[i].service_name
    /\ FindService(P_users_1) = "users"
    /\ FindService(P_usersx) = "users"
    /\ FindService(P_user) = NoService
    /\ \A c \in Conns :
          (req[c].pc # "idle" /\ req[c].path \notin GATEWAY_PATHS) =>
              IF FirstMatch(req[c].path) = 0
              THEN /\ req[c].service_name = NoService
                   /\ req[c].pc = "done"
                   /\ resp[c].status = 404
                   /\ resp[c].service = "none"
              ELSE /\ req[c].service_name = ROUTES[FirstMatch(req[c].path)].service_name
                   /\ resp[c].status # 404

\* C6 witness: after a request under the users prefix was forwarded to users,
\* a request to /api/unknown was answered 404 with X-Service: none.
C6_Witness ==
    /\ stats.successful_requests = 1
    /\ "users" \in DOMAIN circuit_breakers
    /\ req[1].pc = "done"
    /\ req[1].path = P_unknown
    /\ req[1].service_name = NoService
    /\ resp[1].status = 404
    /\ resp[1].service = "none"

\* C7 as claimed: when no request is in progress, every request so far has
\* been counted in exactly one of successful_requests, failed_requests and
\* cached_requests.
C7_EveryRequestCountedOnce ==
    (\A c \in Conns : req[c].pc \in {"idle", "done"}) =>
        stats.total_requests =
            stats.successful_requests + stats.failed_requests + stats.cached_requests

\* the paths C8 calls gateway-owned: health, metrics, documentation, root
OwnedPaths == GATEWAY_PATHS \cup {P_root}

C8_OwnPathHandedOn ==
    \A c \in Conns :
        (req[c].pc # "idle" /\ req[c].path \in OwnedPaths) =>
            /\ req[c].gate = "bypass"
            /\ resp[c].status \notin {404, 429, 503}

C8_OwnPathFrameStep ==
    \A c \in Conns :
        ((EnterStep(c) /\ req'[c].path \in OwnedPaths)
            \/ (req[c].pc = "call_next" /\ req'[c].pc = "done"))
        => /\ rate_limits' = rate_limits
           /\ circuit_breakers' = circuit_breakers
           /\ cache' = cache

\* C8 as claimed: a request to /health, /metrics, /docs, /openapi.json or /
\* is handed to the local handler, is never answered 404, 429 or 503 by the
\* middleware, and leaves the rate-limit windows, the breaker records and the
\* cache as they were.
C8_OwnPathsBypass == [](C8_OwnPathHandedOn) /\ [][C8_OwnPathFrameStep]_vars

\* C9 as claimed: every response sent, whichever step ends the request,
\* carries X-Request-ID, X-Response-Time and X-Service, the latter naming the
\* resolved service, or none/unknown when no service was resolved.
C9_EveryResponseHasHeaders ==
    \A c \in Conns :
        req[c].pc = "done" =>
            /\ resp[c].request_id
            /\ resp[c].response_time
            /\ resp[c].service # NoHeader
            /\ IF req[c].service_name \in DOMAIN SERVICES
               THEN resp[c].service = req[c].service_name
               ELSE resp[c].service \in {"none", "unknown"}

C10_FailureStep ==
    \A c \in Conns :
        (OutcomeStep(c) /\ req'[c].backend.kind # "response") =>
            /\ req'[c].backend.kind = "timeout" => resp'[c].status = 504
            /\ req'[c].backend.kind = "connect" => resp'[c].status = 503
            /\ req'[c].backend.kind = "other" => resp'[c].status = 502
            /\ resp'[c].status \in {502, 503, 504}
            /\ FailuresOf(circuit_breakers', req[c].service_name)
                   = FailuresOf(circuit_breakers, req[c].service_name) + 1

\* C10: when the backend call of a request fails, the response is 504 for a
\* timeout, 503 for a connection failure and 502 for any other exception, and
\* the failures of the service's breaker are one more than before.
C10_FailuresClassifiedAndCounted == [][C10_FailureStep]_vars

\* C10 witness: the second request to users in a row timed out, was answered
\* 504, and the breaker of users counts 2 failures.
C10_Witness ==
    /\ req[1].pc = "done"
    /\ req[1].service_name = "users"
    /\ req[1].backend.kind = "timeout"
    /\ resp[1].status = 504
    /\ circuit_breakers["users"].failures = 2
    /\ circuit_breakers["users"].last_failure_time = now

\* the step C11 speaks of: a request answered 429 by the rate gate or 503 by
\* the breaker gate ends there, and the step leaves every breaker record and
\* failed_requests as they were.
C11_DenialStep ==
    \A c \in Conns :
        (EnterStep(c) /\ req'[c].gate \in {"rate_limited", "circuit_open"}) =>
            /\ req'[c].pc = "done"
            /\ resp'[c].status = IF req'[c].gate = "rate_limited" THEN 429 ELSE 503
            /\ circuit_breakers' = circuit_breakers
            /\ stats'.failed_requests = stats.failed_requests
            /\ cb_consec' = cb_consec

\* C11: a request denied by the rate limit (429) or by an open breaker (503)
\* is not reported to the breaker: failures, last_failure_time and state of
\* every breaker, and failed_requests, are unchanged by it.
C11_DenialsNotRecorded == [][C11_DenialStep]_vars

\* C11 witness: u2's 51st request of its window, to users, was answered 429
\* while the breaker of users was open on the 5 failures u1 met, more than 60
\* seconds after the last of them; u1's 7th request had been denied.
C11_Witness ==
    /\ req[1].pc = "done"
    /\ req[1].gate = "rate_limited"
    /\ req[1].service_name = "users"
    /\ resp[1].status = 429
    /\ WindowCalls("u2") = 51
    /\ WindowCalls("u1") = 7
    /\ circuit_breakers["users"].state = "open"
    /\ circuit_breakers["users"].failures = 5
    /\ now - circuit_breakers["users"].last_failure_time > 60
    /\ stats.failed_requests = 5

\* what C12 says of a request at rest: one that reached forward_request and
\* ended has had its backend outcome, one that did not has none; an error
\* status of forward_request answers a recorded failure.
C12_AttemptHasOutcome ==
    \A c \in Conns :
        req[c].pc = "done" =>
            /\ req[c].forwarded <=> req[c].backend.kind # "none"
            /\ (req[c].forwarded /\ req[c].backend.kind # "response") =>
                   /\ resp[c].status \in {502, 503, 504}
                   /\ stats.failed_requests >= 1
                   /\ FailuresOf(circuit_breakers, req[c].service_name) >= 1

\* the steps C12 speaks of: the step that ends an attempt adds one to
\* successful_requests when the backend answered and one to failed_requests
\* (and to the failures of the service) when the call raised, never to both;
\* no other step changes either counter or any failure count.
C12_RecordStep ==
    /\ \A c \in Conns :
          OutcomeStep(c) =>
              IF req'[c].backend.kind = "response"
              THEN /\ stats'.successful_requests = stats.successful_requests + 1
                   /\ stats'.failed_requests = stats.failed_requests
              ELSE /\ stats'.failed_requests = stats.failed_requests + 1
                   /\ stats'.successful_requests = stats.successful_requests
                   /\ FailuresOf(circuit_breakers', req[c].service_name)
                          = FailuresOf(circuit_breakers, req[c].service_name) + 1
    /\ (\A c \in Conns : ~OutcomeStep(c)) =>
          /\ stats'.successful_requests = stats.successful_requests
          /\ stats'.failed_requests = stats.failed_requests
          /\ \A sv \in DOMAIN circuit_breakers' :
                FailuresOf(circuit_breakers', sv) = FailuresOf(circuit_breakers, sv)

\* C12: every attempt that reaches forward_request records exactly one of
\* success and failure, once, a failure no later than its error response; no
\* request records twice and no attempt ends unrecorded.
C12_OneOutcomePerAttempt == [](C12_AttemptHasOutcome) /\ [][C12_RecordStep]_vars

\* C12 witness: after a timeout and an answered request, a third attempt got
\* a backend response whose body could not be decoded: it is answered 500 and
\* counts as the second success, with the one failure still counted.
C12_Witness ==
    /\ req[1].pc = "done"
    /\ req[1].forwarded
    /\ req[1].backend.kind = "response"
    /\ resp[1].status = 500
    /\ stats.total_requests = 3
    /\ stats.successful_requests = 2
    /\ stats.failed_requests = 1

\* what C13 says of a request at rest: only a request that passed the breaker
\* gate is at or beyond the backend call, and a request stopped at a gate has
\* made no call.
C13_OnlyAdmittedForwarded ==
    \A c \in Conns :
        req[c].pc # "idle" =>
            /\ (req[c].forwarded \/ req[c].pc \in {"body", "backend"}) =>
                   req[c].gate = "forward"
            /\ req[c].gate # "forward" =>
                   ~req[c].forwarded /\ req[c].backend.kind = "none"

\* the steps C13 speaks of: a request goes on towards the backend only when,
\* on arrival, the breaker of its service was not open or had been open for
\* more than 60 seconds, and the check leaves the breaker not open; the call
\* is sent only for such a request.
C13_AdmitStep ==
    \A c \in Conns :
        /\ (EnterStep(c) /\ req'[c].gate = "forward") =>
              LET sv == req'[c].service_name
              IN  /\ \/ sv \notin DOMAIN circuit_breakers
                     \/ circuit_breakers[sv].state # "open"
                     \/ now - circuit_breakers[sv].last_failure_time > 60
                  /\ sv \in DOMAIN circuit_breakers'
                  /\ circuit_breakers'[sv].state # "open"
        /\ (req[c].pc # "idle" /\ ~req[c].forwarded /\ req'[c].pc # "idle" /\ req'[c].forwarded) =>
              /\ req[c].pc = "body"
              /\ req[c].gate = "forward"
              /\ req'[c].service_name = req[c].service_name

\* C13: every call to a backend is preceded, in the same request, by a
\* check_circuit_breaker of that service that allowed it; a request the check
\* denied makes no call.
C13_CheckBeforeForward == [](C13_OnlyAdmittedForwarded) /\ [][C13_AdmitStep]_vars

\* C13 witness: a request is at the backend that was admitted by the check
\* that found the breaker open for more than 60 seconds and made it half-open.
C13_Witness ==
    /\ req[1].pc = "backend"
    /\ req[1].forwarded
    /\ req[1].gate = "forward"
    /\ circuit_breakers["users"].state = "half-open"
    /\ circuit_breakers["users"].failures = 5
    /\ now - circuit_breakers["users"].last_failure_time > 60

\* what C14 says of the windows at rest: the count of a client's window is
\* the number of that client's calls of check_rate_limit in the window.
C14_CountIsCalls ==
    \A u \in DOMAIN rl_calls :
        /\ u \in DOMAIN rate_limits
        /\ rate_limits[u].count = rl_calls[u].n

\* the steps C14 speaks of: the k-th call of a window observes the count k and
\* leaves it in the window, whatever other requests are in flight; a step
\* that is no arrival leaves every window as it was.
C14_IncrementStep ==
    /\ \A c \in Conns :
          (EnterStep(c) /\ req'[c].gate \notin {"bypass", "unrouted"}) =>
              \E u \in DOMAIN rl_calls' :
                  /\ req'[c].count = rl_calls'[u].n
                  /\ rate_limits'[u].count = rl_calls'[u].n
                  /\ rl_calls'[u].n = IF OpensWindow(u, now) THEN 1 ELSE rl_calls[u].n + 1
                  /\ \A v \in DOMAIN rate_limits' \ {u} :
                        v \in DOMAIN rate_limits /\ rate_limits'[v] = rate_limits[v]
    /\ (\A c \in Conns : ~EnterStep(c)) => rate_limits' = rate_limits

\* C14: with requests served concurrently, no increment of a rate-limit
\* window is lost: after n calls in a window its count is n, and the calls
\* observed the counts 1..n, each once.
C14_NoLostIncrement == [](C14_CountIsCalls) /\ [][C14_IncrementStep]_vars

\* C14 witness: two requests of one client are at the backend together; the
\* one on connection 2 arrived first and observed 3, the other observed 4,
\* and the window counts 4.
C14_Witness ==
    /\ req[1].pc = "backend"
    /\ req[2].pc = "backend"
    /\ req[2].count = 3
    /\ req[1].count = 4
    /\ rate_limits["u1"].count = 4
    /\ rl_calls["u1"].n = 4

\* what C15 says of a request at rest: while it is in progress no response
\* has been sent, and once it has ended the response has the status of its
\* outcome: the local handler's for a gateway path, 404 unrouted, 429 rate
\* limited, 503 breaker open, 200 from the cache, 504, 503 or 502 for a
\* failed backend call, and for an answered one the backend's status or 500.
C15_ClassifiedResponse ==
    \A c \in Conns :
        /\ req[c].pc \in {"call_next", "body", "backend"} => resp[c].status = 0
        /\ req[c].pc = "done" =>
              CASE req[c].gate = "bypass" -> resp[c].status = LocalStatus(req[c].method)
                [] req[c].gate = "unrouted" -> resp[c].status = 404
                [] req[c].gate = "rate_limited" -> resp[c].status = 429
                [] req[c].gate = "circuit_open" -> resp[c].status = 503
                [] req[c].gate = "cache_hit" -> resp[c].status = 200
                [] OTHER ->
                      IF req[c].backend.kind = "response"
                      THEN resp[c].status \in {req[c].backend.status, 500}
                      ELSE resp[c].status = FailureStatus(req[c].backend.kind)

\* the steps C15 speaks of: a response is sent on a connection only by the
\* step that ends its request.
C15_ResponseStep ==
    \A c \in Conns :
        resp'[c] # resp[c] =>
            \/ EnterStep(c)
            \/ req[c].pc \in {"call_next", "body", "backend"} /\ req'[c].pc = "done"

\* every request in progress ends
C15_Ends ==
    \A c \in Conns : (req[c].pc \in {"call_next", "body", "backend"}) ~> (req[c].pc = "done")

\* C15: every request that enters the pipeline ends in exactly one response
\* with a classified status; a failure at any stage, also one raised after
\* the backend answered, becomes an error response of the middleware.
C15_AlwaysOneClassifiedResponse ==
    [](C15_ClassifiedResponse) /\ [][C15_ResponseStep]_vars /\ C15_Ends

\* C15 witness: the backend answered a GET with 200 and a body that is not
\* JSON; decoding it for the cache raised after record_success, and the
\* request ended with the 500 of the middleware's last except clause.
C15_Witness ==
    /\ req[1].pc = "done"
    /\ req[1].method = "GET"
    /\ req[1].backend.kind = "response"
    /\ req[1].backend.status = 200
    /\ resp[1].status = 500
    /\ resp[1].content = ErrorContent("Internal server error")
    /\ stats.successful_requests = 1
    /\ cache = EmptyDict

\* a step in which exactly one client's window takes one more call: its count
\* goes up by one, or to 1 in a window opened now, and no other window changes
QuotaConsumed ==
    \E u \in DOMAIN rate_limits' :
        /\ rate_limits'[u].count =
               IF u \in DOMAIN rate_limits /\ now <= rate_limits[u].reset_time
               THEN rate_limits[u].count + 1
               ELSE 1
        /\ rate_limits'[u].reset_time =
               IF u \in DOMAIN rate_limits /\ now <= rate_limits[u].reset_time
               THEN rate_limits[u].reset_time
               ELSE now + 60
        /\ \A v \in DOMAIN rate_limits' \ {u} :
              v \in DOMAIN rate_limits /\ rate_limits'[v] = rate_limits[v]

\* a live cache entry for the key of c's new request
LiveEntry(c) ==
    LET key == CacheKey(req'[c].path, req'[c].query)
    IN  key \in DOMAIN cache /\ now <= cache[key].expires_at

\* the steps C16 speaks of, by the gate at which an arriving request stops
C16_GateOrderStep ==
    /\ \A c \in Conns :
          EnterStep(c) =>
              LET g == req'[c].gate
                  sv == req'[c].service_name
              IN  /\ g = "unrouted" =>
                         /\ rate_limits' = rate_limits
                         /\ circuit_breakers' = circuit_breakers
                         /\ cache' = cache
                  /\ g = "rate_limited" =>
                         /\ QuotaConsumed
                         /\ circuit_breakers' = circuit_breakers
                         /\ cache' = cache
                  /\ g = "circuit_open" =>
                         /\ QuotaConsumed
                         /\ circuit_breakers' = circuit_breakers
                         /\ cache' = cache
                         /\ resp'[c].status = 503
                         /\ resp'[c].x_cache = NoHeader
                  /\ g = "cache_hit" =>
                         /\ QuotaConsumed
                         /\ circuit_breakers'[sv].state # "open"
                         /\ req'[c].method = "GET"
                         /\ LiveEntry(c)
                         /\ cache' = cache
                         /\ req'[c].pc = "done"
                  /\ g = "forward" =>
                         /\ QuotaConsumed
                         /\ circuit_breakers'[sv].state # "open"
                         /\ req'[c].method = "GET" =>
                                CacheKey(req'[c].path, req'[c].query) \notin DOMAIN cache'
                                   \/ ~Truthy(cache'[CacheKey(req'[c].path, req'[c].query)].value)
                         /\ req'[c].method # "GET" => cache' = cache
                         /\ req'[c].pc = "body"
    /\ \A c \in Conns :
          (OutcomeStep(c) /\ cache' # cache) =>
              /\ req[c].gate = "forward"
              /\ req[c].method = "GET"
              /\ req'[c].backend = [kind |-> "response", status |-> 200]
              /\ CacheKey(req[c].path, req[c].query) \in DOMAIN cache'
    /\ (\A c \in Conns : ~EnterStep(c) /\ ~OutcomeStep(c)) => cache' = cache

\* C16: the gates apply in the order route, rate limit, breaker, cache lookup,
\* forward, cache store, and a request stopped at a gate touches nothing of a
\* later one: unrouted uses no quota; rate limited leaves every breaker as it
\* was; denied by the breaker does no cache lookup and gets no cached answer;
\* denied by the breaker or served from the cache has used one unit of quota.
C16_GatesInOrder == [][C16_GateOrderStep]_vars

\* C16 witness: u1's GET to users was denied by the open breaker (503, no
\* X-Cache) while the answer to its first GET was in the cache, not expired,
\* and the denied request is the 7th counted in u1's window.
C16_Witness ==
    /\ req[1].pc = "done"
    /\ req[1].gate = "circuit_open"
    /\ req[1].method = "GET"
    /\ resp[1].status = 503
    /\ CacheKey(P_users, Q_none) \in DOMAIN cache
    /\ now <= cache[CacheKey(P_users, Q_none)].expires_at
    /\ rate_limits["u1"].count = 7
    /\ circuit_breakers["users"].failures = 5

\* C17: check_rate_limit counts every call, denied ones too: after the k-th
\* call of a window the count is k, also for k above the limit, so a denied
\* call leaves a count above the ceiling it was compared with.
C17_DeniedCallsCounted ==
    /\ \A u \in DOMAIN rl_calls :
          /\ u \in DOMAIN rate_limits
          /\ rate_limits[u].count = rl_calls[u].n
    /\ (ret.op = "check_rate_limit" /\ ~ret.ok) =>
          rate_limits[ret.user].count > RateLimitOf(ret.tier)

\* C17 witness: the 53rd call of a window whose calls all assert the
\* anonymous tier was denied like the two before it, and the count is 53.
C17_Witness ==
    /\ ret.op = "check_rate_limit"
    /\ ~ret.ok
    /\ rl_calls[ret.user].tier = "anonymous"
    /\ rl_calls[ret.user].n = 53
    /\ rate_limits[ret.user].count = 53

\* the ceiling C18 gives a tier: 100 for default and for any unknown tier,
\* 50 for anonymous, 1000 for premium
CeilingOf(tier) ==
    CASE tier = "anonymous" -> 50
      [] tier = "premium" -> 1000
      [] OTHER -> 100

\* C18: a client has one window, whatever tiers its requests assert; a call
\* is allowed exactly when the number of the client's calls in the window so
\* far, this one included and under any tiers, is at most the ceiling of the
\* tier this call asserts.
C18_OneWindowPerClient ==
    /\ DOMAIN rate_limits \subseteq RateUsers
    /\ ret.op = "check_rate_limit" =>
          /\ rate_limits[ret.user].count = rl_calls[ret.user].n
          /\ ret.ok <=> rl_calls[ret.user].n <= CeilingOf(ret.tier)

\* C18 witness: in a window whose calls asserted different tiers, the 51st
\* call asserted anonymous and was denied, though fewer than 51 calls of the
\* window asserted anonymous.
C18_Witness ==
    /\ ret.op = "check_rate_limit"
    /\ ret.tier = "anonymous"
    /\ ~ret.ok
    /\ rl_calls[ret.user].tier = "mixed"
    /\ rl_calls[ret.user].n = 51

\* what C19 says of a closed breaker at rest: its failures are the failures
\* recorded since the last recorded success, and fewer than 5.
C19_ClosedCountsTheRun ==
    \A sv \in DOMAIN circuit_breakers :
        circuit_breakers[sv].state = "closed" =>
            /\ circuit_breakers[sv].failures = ConsecOf(sv)
            /\ circuit_breakers[sv].failures < 5

\* the steps C19 speaks of: a success recorded on a closed breaker leaves it
\* closed with failures 0, and a closed breaker is opened only by the failure
\* that is the 5th since the last success.
C19_ClosedStep ==
    /\ \A c \in Conns :
          (/\ OutcomeStep(c)
           /\ req'[c].backend.kind = "response"
           /\ req[c].service_name \in DOMAIN circuit_breakers
           /\ circuit_breakers[req[c].service_name].state = "closed")
          => /\ circuit_breakers'[req[c].service_name].state = "closed"
             /\ circuit_breakers'[req[c].service_name].failures = 0
    /\ \A sv \in DOMAIN circuit_breakers' :
          (/\ circuit_breakers'[sv].state = "open"
           /\ (sv \in DOMAIN circuit_breakers => circuit_breakers[sv].state = "closed"))
          => /\ ConsecOf(sv) = 4
             /\ circuit_breakers'[sv].failures = 5
             /\ \E c \in Conns :
                   /\ OutcomeStep(c)
                   /\ req[c].service_name = sv
                   /\ req'[c].backend.kind # "response"

\* C19: on a closed breaker every recorded success resets failures to 0, so
\* only 5 failures with no success between them open it; while every run of
\* failures is shorter than 5 the breaker stays closed.
C19_OpensOnlyOnFiveInARow == [](C19_ClosedCountsTheRun) /\ [][C19_ClosedStep]_vars

\* C19 witness: 7 failures have been recorded in all, in runs of 4 and 3 with
\* one success between them, and the breaker is closed with failures 3.
C19_Witness ==
    /\ "users" \in DOMAIN circuit_breakers
    /\ circuit_breakers["users"].state = "closed"
    /\ circuit_breakers["users"].failures = 3
    /\ stats.failed_requests = 7
    /\ stats.successful_requests = 1
    /\ req[1].pc = "done"

\* the last_failure_time field of a service's breaker, 0 while it has no record
LastFailureOf(cb, service_name) ==
    IF service_name \in DOMAIN cb THEN cb[service_name].last_failure_time ELSE 0

\* the steps C20 speaks of: an open breaker leaves open only in the arrival
\* of a request for its service more than 60 seconds after the last failure,
\* for half-open with no success counted, and that request is let through;
\* the outcome of an attempt recorded on an open breaker leaves it open; and
\* the arrival of a request changes no failure count and no last_failure_time.
C20_OpenStep ==
    /\ \A sv \in DOMAIN circuit_breakers :
          (circuit_breakers[sv].state = "open" /\ circuit_breakers'[sv].state # "open") =>
              /\ circuit_breakers'[sv].state = "half-open"
              /\ circuit_breakers'[sv].success_count = 0
              /\ now - circuit_breakers[sv].last_failure_time > 60
              /\ \E c \in Conns :
                    /\ EnterStep(c)
                    /\ req'[c].service_name = sv
                    /\ req'[c].gate \in {"forward", "cache_hit"}
    /\ \A c \in Conns :
          (/\ OutcomeStep(c)
           /\ req[c].service_name \in DOMAIN circuit_breakers
           /\ circuit_breakers[req[c].service_name].state = "open")
          => circuit_breakers'[req[c].service_name].state = "open"
    /\ \A c \in Conns :
          EnterStep(c) =>
              \A sv \in DOMAIN circuit_breakers' :
                  /\ FailuresOf(circuit_breakers', sv) = FailuresOf(circuit_breakers, sv)
                  /\ LastFailureOf(circuit_breakers', sv) = LastFailureOf(circuit_breakers, sv)

\* C20: an open breaker leaves open only through check_circuit_breaker, more
\* than 60 seconds after the last failure, to half-open with the success
\* count 0 and the request allowed; with requests served concurrently, an
\* outcome recorded while the breaker is open never closes or half-opens it,
\* and check_circuit_breaker never changes failures or last_failure_time.
C20_OnlyTheCheckLeavesOpen == [][C20_OpenStep]_vars

\* C20 witness: while the 5th failure opened the breaker another attempt was
\* in flight; its success was recorded on the open breaker, which zeroed its
\* failures and left it open, and the request arriving 61 seconds later made
\* it half-open.
C20_Witness ==
    /\ "users" \in DOMAIN circuit_breakers
    /\ circuit_breakers["users"].state = "half-open"
    /\ circuit_breakers["users"].success_count = 0
    /\ circuit_breakers["users"].failures = 0
    /\ stats.failed_requests = 5
    /\ stats.successful_requests = 1
    /\ now - circuit_breakers["users"].last_failure_time > 60
    /\ \E c \in Conns : req[c].pc = "body"

\* the state field of the breaker of users, closed while it has no record
UsersBreakerState ==
    IF "users" \in DOMAIN circuit_breakers THEN circuit_breakers["users"].state ELSE "closed"

\* the steps C21 speaks of: a request that arrives for a service whose
\* breaker has been open for more than 60 seconds, and is not rate limited,
\* is admitted and leaves the breaker half-open; and the second success
\* recorded on a half-open breaker closes it.
C21_RecoveryStep ==
    \A c \in Conns :
        /\ (/\ EnterStep(c)
            /\ req'[c].service_name \in DOMAIN circuit_breakers
            /\ circuit_breakers[req'[c].service_name].state = "open"
            /\ now - circuit_breakers[req'[c].service_name].last_failure_time > 60
            /\ req'[c].gate # "rate_limited")
           => /\ req'[c].gate \in {"forward", "cache_hit"}
              /\ circuit_breakers'[req'[c].service_name].state = "half-open"
        /\ (/\ OutcomeStep(c)
            /\ req'[c].backend.kind = "response"
            /\ req[c].service_name \in DOMAIN circuit_breakers
            /\ circuit_breakers[req[c].service_name].state = "half-open"
            /\ circuit_breakers[req[c].service_name].success_count = 1)
           => circuit_breakers'[req[c].service_name].state = "closed"

\* with no further failure, time passing and requests arriving, an open
\* breaker becomes half-open and then closed
C21_OpenLeadsToClosed ==
    /\ (UsersBreakerState = "open") ~> (UsersBreakerState = "half-open")
    /\ (UsersBreakerState = "open") ~> (UsersBreakerState = "closed")

\* C21: an open breaker recovers: once more than 60 seconds have passed since
\* the last failure the next request that reaches the breaker is admitted and
\* makes it half-open, two successful attempts then close it; so with a
\* backend that answers from then on, and requests that keep arriving and are
\* forwarded, the breaker is eventually closed.
C21_OpenBreakerRecovers == [][C21_RecoveryStep]_vars /\ C21_OpenLeadsToClosed

\* C21 witness: the breaker that 5 refused calls had opened is closed again,
\* with failures 0, after a request was denied, time passed and two
\* requests were answered.
C21_Witness ==
    /\ "users" \in DOMAIN circuit_breakers
    /\ UsersBreakerState = "closed"
    /\ circuit_breakers["users"].failures = 0
    /\ circuit_breakers["users"].success_count = 2
    /\ stats.failed_requests = 5
    /\ stats.successful_requests = 2
    /\ stats.total_requests = 8
    /\ now > 60

\* what C22 says of the cache at rest: every key is the path of a routed
\* request, a question mark and a query string; keys of different query
\* strings are different keys.
C22_KeysArePathAndQuery ==
    /\ \A key \in DOMAIN cache :
          \E p \in Paths, q \in Queries :
              /\ key = p \o <<"?">> \o q
              /\ FindService(p) # NoService
    /\ \A p \in Paths, q1, q2 \in Queries :
          q1 # q2 => CacheKey(p, q1) # CacheKey(p, q2)

\* the steps C22 speaks of: an entry is created or overwritten only by the
\* step in which the backend answers 200 to a forwarded GET, under the key of
\* that request's path and query and with the answer's payload; an entry is
\* removed only by the lookup of a GET with that key after it expired; and a
\* request served from the cache gets the value under its own key.
C22_CacheStep ==
    /\ \A key \in DOMAIN cache' :
          (key \notin DOMAIN cache \/ cache'[key] # cache[key]) =>
              \E c \in Conns :
                  /\ OutcomeStep(c)
                  /\ req[c].method = "GET"
                  /\ req'[c].backend = [kind |-> "response", status |-> 200]
                  /\ key = req[c].path \o <<"?">> \o req[c].query
                  /\ cache'[key].expires_at = now + 300
                  /\ cache'[key].value = resp'[c].content
    /\ \A key \in DOMAIN cache \ DOMAIN cache' :
          \E c \in Conns :
              /\ EnterStep(c)
              /\ req'[c].method = "GET"
              /\ key = req'[c].path \o <<"?">> \o req'[c].query
              /\ now > cache[key].expires_at
    /\ \A c \in Conns :
          (EnterStep(c) /\ req'[c].gate = "cache_hit") =>
              /\ req'[c].method = "GET"
              /\ resp'[c].content = cache[req'[c].path \o <<"?">> \o req'[c].query].value
              /\ cache' = cache

\* C22: every cache entry was stored by a GET whose backend response had
\* status 200, under the key made of that request's path and raw query; no
\* other method and no other status creates or overwrites an entry, and
\* requests that differ in the query string use different entries.
C22_OnlyGet200Cached == [](C22_KeysArePathAndQuery) /\ [][C22_CacheStep]_vars

\* C22 witness: the cache holds [] for /api/users? and [1] for
\* /api/users?a=1, and a third GET, with the query a=1, was answered from the
\* cache with [1].
C22_Witness ==
    /\ CacheKey(P_users, Q_none) \in DOMAIN cache
    /\ CacheKey(P_users, Q_a1) \in DOMAIN cache
    /\ cache[CacheKey(P_users, Q_none)].value = JList(<< >>)
    /\ cache[CacheKey(P_users, Q_a1)].value = JList(<<1>>)
    /\ req[1].pc = "done"
    /\ req[1].gate = "cache_hit"
    /\ req[1].query = Q_a1
    /\ resp[1].content = JList(<<1>>)

\* C23: with requests served concurrently, in every reachable state a closed
\* breaker has fewer than 5 failures and a half-open breaker has counted
\* fewer than 2 successes.
C23_BreakerCountsBelowLimits ==
    \A sv \in DOMAIN circuit_breakers :
        /\ circuit_breakers[sv].state \in {"closed", "open", "half-open"}
        /\ circuit_breakers[sv].state = "closed" => circuit_breakers[sv].failures < 5
        /\ circuit_breakers[sv].state = "half-open" => circuit_breakers[sv].success_count < 2

\* C23 witness: the breaker is half-open with one success counted while the
\* next attempt is at the backend on connection 1; the 5th request, served
\* on connection 2, was one of the 5 refused calls.
C23_Witness ==
    /\ "users" \in DOMAIN circuit_breakers
    /\ circuit_breakers["users"].state = "half-open"
    /\ circuit_breakers["users"].success_count = 1
    /\ circuit_breakers["users"].failures = 5
    /\ stats.total_requests = 7
    /\ req[1].pc = "backend"
    /\ req[2].pc = "done"
    /\ req[2].backend.kind = "connect"
    /\ req[2].serial = 5

\* the steps C24 speaks of: when the backend returns a response, of whatever
\* status, successful_requests goes up by one and failed_requests stays, a
\* closed breaker has failures 0 afterwards, a half-open one counts one more
\* success or closes, and none becomes open; a breaker becomes open only in a
\* step in which a backend call raised.
C24_ResponseStep ==
    /\ \A c \in Conns :
          (OutcomeStep(c) /\ req'[c].backend.kind = "response") =>
              LET sv == req[c].service_name
                  before == IF sv \in DOMAIN circuit_breakers
                            THEN circuit_breakers[sv]
                            ELSE [state |-> "closed", failures |-> 0,
                                  last_failure_time |-> 0, success_count |-> 0]
                  after == circuit_breakers'[sv]
              IN  /\ stats'.successful_requests = stats.successful_requests + 1
                  /\ stats'.failed_requests = stats.failed_requests
                  /\ resp'[c].status = req'[c].backend.status
                  /\ before.state = "closed" => after.state = "closed" /\ after.failures = 0
                  /\ before.state = "half-open" =>
                         /\ after.success_count = before.success_count + 1
                         /\ after.state = IF before.success_count = 1 THEN "closed" ELSE "half-open"
                  /\ after.state = "open" => before.state = "open"
                  /\ after.last_failure_time = before.last_failure_time
    /\ \A sv \in DOMAIN circuit_breakers' :
          (/\ circuit_breakers'[sv].state = "open"
           /\ (sv \in DOMAIN circuit_breakers => circuit_breakers[sv].state # "open"))
          => \E c \in Conns :
                /\ OutcomeStep(c)
                /\ req[c].service_name = sv
                /\ req'[c].backend.kind \in {"timeout", "connect", "other"}

OutcomesCounted(st) == st.successful_requests + st.failed_requests + st.cached_requests

\* the requests in progress
InProgress == {c \in Conns : req[c].pc \in {"call_next", "body", "backend"}}

\* what C25 says of the counters at rest: the outcomes counted, together
\* with the requests still in progress, do not exceed total_requests.
C25_OutcomesWithinTotal ==
    /\ OutcomesCounted(stats) + Cardinality(InProgress) <= stats.total_requests
    /\ OutcomesCounted(stats) <= stats.total_requests

\* the steps C25 speaks of: no counter goes down; an arriving request adds
\* one to total_requests and, when it is served from the cache, one to
\* cached_requests and nothing else; the end of a backend call adds one to
\* exactly one of successful_requests and failed_requests, for a request not
\* yet counted; no other step changes a counter.
C25_CounterStep ==
    /\ stats'.total_requests >= stats.total_requests
    /\ stats'.successful_requests >= stats.successful_requests
    /\ stats'.failed_requests >= stats.failed_requests
    /\ stats'.cached_requests >= stats.cached_requests
    /\ \A c \in Conns :
          EnterStep(c) =>
              /\ stats'.total_requests = stats.total_requests + 1
              /\ stats'.cached_requests - stats.cached_requests
                     = IF req'[c].gate = "cache_hit" THEN 1 ELSE 0
              /\ stats'.successful_requests = stats.successful_requests
              /\ stats'.failed_requests = stats.failed_requests
    /\ \A c \in Conns :
          OutcomeStep(c) =>
              /\ req[c].gate = "forward"
              /\ stats'.total_requests = stats.total_requests
              /\ OutcomesCounted(stats') = OutcomesCounted(stats) + 1
              /\ stats'.cached_requests = stats.cached_requests
    /\ (\A c \in Conns : ~EnterStep(c) /\ ~OutcomeStep(c)) => stats' = stats

\* C25: with requests served concurrently, no counter ever decreases and
\* successful_requests + failed_requests + cached_requests <= total_requests:
\* each request adds 1 to total_requests and at most 1 to the outcome counters.
C25_CountersMonotoneAndBounded == [](C25_OutcomesWithinTotal) /\ [][C25_CounterStep]_vars

\* C25 witness: of 5 requests one was answered by the backend, one refused,
\* one served from the cache, one was unrouted and one is at the backend:
\* the outcome counters sum to 3.
C25_Witness ==
    /\ stats.total_requests = 5
    /\ stats.successful_requests = 1
    /\ stats.failed_requests = 1
    /\ stats.cached_requests = 1
    /\ req[1].pc = "backend"
    /\ req[2].pc = "done"
    /\ req[2].gate = "unrouted"

=============================================================================
